---- MODULE Spec2Model ----
(***************************************************************************)
(* Model of the two notebooks of the repository.                           *)
(*                                                                         *)
(*   tts         "Text to Speech with Azure AI Foundry gpt-4o-mini-tts":   *)
(*               the function gpt4ominitts and the gradio form bound to it *)
(*   extraction  "Structured outputs with Azure OpenAI GPT-4o 2024-08-06": *)
(*               three examples run cell after cell in one kernel          *)
(*                                                                         *)
(* A behaviour is the life of one kernel running one of the notebooks.     *)
(* The hosted service, the process environment and the temporary directory *)
(* are the environment; their answers are chosen nondeterministically.     *)
(***************************************************************************)
EXTENDS Integers, Sequences, FiniteSets, TLC

\* ------------------------------------------------------------------ bounds
\* number of gpt4ominitts invocations that may be in progress or finished
MaxInvocations == 2

None == "None"

\* ---------------------------------------------------- program constants
\* tts notebook, cell 4
api_version == "2025-03-01-preview"
model_name == "gpt-4o-mini-tts"

\* tts notebook, cell 5
VOICES == <<"alloy", "ash", "ballad", "coral", "echo", "fable", "onyx",
            "nova", "sage", "shimmer", "verse">>

VoiceSet == {VOICES[k] : k \in 1..Len(VOICES)}

\* tts notebook, cells 7 and 8: the defaults the form starts with
instructions == "Tone: Inspirational"
text == "ARTICLE PREMIER."

\* gr.Dropdown(VOICES, value="ash")
DropdownChoices == VoiceSet
DropdownDefault == "ash"

\* extraction notebook, cell 5
MODEL == "gpt-4o-2024-08-06"
API_VERSION == "2024-08-01-preview"

\* extraction notebook: the pydantic classes of the three examples, each
\* field with its annotation
GetInformations ==
    [name |-> "GetInformations",
     fields |-> << <<"weather_location", "str">>, <<"country_location", "str">>,
                   <<"country_language", "str">> >>]
ProductSupport ==
    [name |-> "ProductSupport",
     fields |-> << <<"product", "str">>, <<"brand", "str">>,
                   <<"issue", "str">> >>]
CallCenter ==
    [name |-> "CallCenter",
     fields |-> << <<"travel_type", "str">>, <<"from_city", "str">>,
                   <<"to_city", "str">>, <<"travel_class", "str">>,
                   <<"travel_date", "str">>, <<"from_country", "str">>,
                   <<"to_country", "str">>, <<"airplane_company", "str">> >>]

Examples == 1..3
ExampleClass(e) ==
    IF e = 1 THEN GetInformations ELSE IF e = 2 THEN ProductSupport
    ELSE CallCenter

\* the messages each example appends (contents abridged)
SystemMessage == [role |-> "system", content |-> "You are an AI helpful assistant."]
UserMessage(e) ==
    [role |-> "user",
     content |-> IF e = 1 THEN "weather for the capital of France?"
                 ELSE IF e = 2 THEN "My Contoso headphones are not working"
                 ELSE "an Air France flight ticket from Paris to Seattle"]

\* the keys the parse cell of an example prints, in order; Example 3 has no
\* parse cell
PrintedKeys(e) ==
    IF e = 1 THEN <<"weather_location", "country_location", "country_language">>
    ELSE IF e = 2 THEN <<"product", "brand", "issue">>
    ELSE << >>
HasParseCell(e) == e \in {1, 2}

\* ------------------------------------------------- inputs that are explored
\* what a user types or picks in the form
PickedVoices == {"ash", "verse"}
\* voice identifiers passed by a direct call of gpt4ominitts
CalledVoices == {"robot"}

\* audio payloads the endpoint may answer with (the empty one included)
Payloads == {<< >>, <<"R", "I">>}

\* names tempfile may draw for a new file
TempNames == 1..MaxInvocations

\* values the model may put in a field of a structured answer
FieldValues == {"Paris", "Contoso"}
IntegerValues == {"75"}

\* exceptions of the openai client
TtsRemoteErrors == {"APITimeoutError", "AuthenticationError"}
ChatRemoteErrors == {"APITimeoutError", "AuthenticationError"}

VARIABLES
    notebook,   \* which notebook this kernel runs
    env,        \* process environment after load_dotenv("azure.env")
    form,       \* values held by instructions_box, input_box, voice_picker
    inv,        \* the gpt4ominitts invocations
    fs,         \* the temporary directory: name -> bytes, or None
    nb          \* the extraction notebook's kernel: globals and position

vars == <<notebook, env, form, inv, fs, nb>>

\* ============================================================== helpers
NoClient == [azure_endpoint |-> None, api_key |-> None, api_version |-> None]
NoRequest == [model |-> None, voice |-> None, input |-> None,
              instructions |-> None, response_format |-> None]
NoResponse == [status |-> "none", content |-> << >>]
NoFile == [exists |-> FALSE, content |-> << >>]

IdleInvocation ==
    [pc |-> "idle", via |-> None,
     instructions |-> None, text |-> None, voice |-> None,
     client |-> NoClient, sent |-> 0, request |-> NoRequest,
     response |-> NoResponse, temp_audio |-> 0, buffer |-> << >>,
     tempfilename |-> 0, ret |-> 0, exc |-> None, hit |-> None]

Invocations == 1..MaxInvocations

\* os.getenv(name): the value, or None when the variable is not set.  env
\* holds the endpoint and the key of azure.env under the name each notebook
\* reads them by.
getenv(name) ==
    IF name \in {"endpoint", "AZURE_OPENAI_API_ENDPOINT"} THEN env["endpoint"]
    ELSE IF name \in {"key", "AZURE_OPENAI_API_KEY"} THEN env["key"]
    ELSE None

\* AzureOpenAI(azure_endpoint=, api_key=, api_version=): the exception the
\* constructor raises, or None.  The openai client rejects a missing
\* credential first (OpenAIError), then a missing endpoint (ValueError); its
\* fall-back variables AZURE_OPENAI_API_KEY / AZURE_OPENAI_ENDPOINT are the
\* ones the extraction notebook does not set either.
AzureOpenAIError(azure_endpoint, api_key, version) ==
    IF api_key = None THEN "OpenAIError"
    ELSE IF version = None THEN "ValueError"
    ELSE IF azure_endpoint = None THEN "ValueError"
    ELSE None

AzureOpenAI(azure_endpoint, api_key, version) ==
    [azure_endpoint |-> azure_endpoint, api_key |-> api_key,
     api_version |-> version]

\* variant: the exception is caught inside the function, which returns None
ReturnNoneOnError(r, err) == [r EXCEPT !.pc = "done", !.ret = 0]

\* An exception leaves gpt4ominitts: nothing in the function catches it, so
\* the caller (gradio, or the calling cell) receives it and no value.
Raise(r, err) == [r EXCEPT !.pc = "done", !.exc = err, !.ret = 0]

\* history: the exception that arose inside the invocation
Hit(r, err) == [r EXCEPT !.hit = err]

\* variant: every invocation writes to the same, fixed file name
FixedTempName(dir) == {1}

\* tempfile.NamedTemporaryFile draws names until one does not exist yet
\* (the file is opened with O_CREAT | O_EXCL).
FreshTempNames(dir) == {n \in TempNames : ~dir[n].exists}

\* what the remote service may answer to a synthesis request: audio bytes
\* (possibly none), or an error; a voice the service does not know is a
\* 400, and which voices it knows is the service's business, not VOICES'.
TtsAnswers(request) ==
    [status : {"ok"}, content : Payloads]
    \cup [status : TtsRemoteErrors, content : {<< >>}]
    \cup (IF request.voice \in VoiceSet THEN {}
          ELSE [status : {"BadRequestError"}, content : {<< >>}])

\* ------------------------------------------------------------ JSON, dicts
\* A dict is a sequence of <<key, value>> pairs with distinct keys, in
\* insertion order.  A Python value carries its type; a JSON text is its
\* sequence of tokens, each with its lexical kind.
PyStr(v) == [type |-> "str", value |-> v]
PyInt(v) == [type |-> "int", value |-> v]
LBrace == [kind |-> "{", text |-> ""]
RBrace == [kind |-> "}", text |-> ""]
JsonString(v) == [kind |-> "string", text |-> v]
JsonNumber(v) == [kind |-> "number", text |-> v]

\* the JSON token a value is written as
JsonToken(v) == IF v.type = "int" THEN JsonNumber(v.value)
                ELSE JsonString(v.value)
\* json.loads: the Python value a JSON token is read as
PyValue(tok) == IF tok.kind = "number" THEN PyInt(tok.text)
                ELSE PyStr(tok.text)

Keys(d) == {d[j][1] : j \in DOMAIN d}

\* d[k] = v
DictSet(d, k, v) ==
    IF k \in Keys(d)
    THEN [j \in DOMAIN d |-> IF d[j][1] = k THEN <<k, v>> ELSE d[j]]
    ELSE Append(d, <<k, v>>)

\* the service's serialisation of a mapping: { k1 v1 k2 v2 ... }
RECURSIVE Members(_)
Members(d) ==
    IF d = << >> THEN << >>
    ELSE <<JsonString(d[1][1]), JsonToken(d[1][2])>> \o Members(Tail(d))
JsonDumps(d) == <<LBrace>> \o Members(d) \o <<RBrace>>

\* variant: a text cut short is repaired instead of rejected
JsonParsesLenient(t) == Len(t) >= 1 /\ t[1] = LBrace

\* json.loads: does the text parse (as an object)?
JsonParses(t) ==
    /\ Len(t) >= 2
    /\ t[1] = LBrace
    /\ t[Len(t)] = RBrace
    /\ (Len(t) - 2) % 2 = 0
    /\ \A j \in 2..(Len(t) - 1) :
          IF j % 2 = 0 THEN t[j].kind = "string"
          ELSE t[j].kind \in {"string", "number"}

\* json.loads: the dict of a text that parses; a repeated key keeps its
\* last value
RECURSIVE LoadMembers(_, _)
LoadMembers(t, d) ==
    IF Len(t) < 2 THEN d
    ELSE LoadMembers(SubSeq(t, 3, Len(t)),
                     DictSet(d, t[1].text, PyValue(t[2])))
JsonLoads(t) == LoadMembers(SubSeq(t, 2, Len(t) - 1), << >>)

\* variant: the schema's "title" entry is taken for one more property
PydanticFunctionToolTitled(cls) ==
    [type |-> "function", name |-> cls.name, strict |-> TRUE,
     properties |-> [j \in DOMAIN cls.fields |->
                        <<cls.fields[j][1], cls.fields[j][2]>>]
                    \o << <<"title", "string">> >>,
     required |-> [j \in DOMAIN cls.fields |-> cls.fields[j][1]]
                  \o <<"title">>,
     additionalProperties |-> FALSE]

\* variant: every annotation is declared to the service as an integer
JsonTypeInteger(annotation) == "integer"

\* openai.pydantic_function_tool(cls): a strict function tool whose
\* parameters are the JSON schema of the class: one property per field,
\* every property required, no additional properties
JsonType(annotation) == IF annotation = "str" THEN "string" ELSE annotation
PydanticFunctionTool(cls) ==
    [type |-> "function", name |-> cls.name, strict |-> TRUE,
     properties |-> [j \in DOMAIN cls.fields |->
                        <<cls.fields[j][1], JsonType(cls.fields[j][2])>>],
     required |-> [j \in DOMAIN cls.fields |-> cls.fields[j][1]],
     additionalProperties |-> FALSE]

\* ------------------------------------------------- the chat completion service
NoChatResponse ==
    [status |-> "none", finish_reason |-> None, tool_calls_is_none |-> TRUE,
     tool_calls |-> << >>, content |-> None]

\* the mappings that conform to a strict tool: exactly the required keys,
\* each with a value of the declared type
ValuesOfType(jsontype) ==
    IF jsontype = "integer" THEN {PyInt(v) : v \in IntegerValues}
    ELSE {PyStr(v) : v \in FieldValues}
PropertyType(tool, name) ==
    LET j == CHOOSE j \in DOMAIN tool.properties : tool.properties[j][1] = name
    IN tool.properties[j][2]
Conforming(tool) ==
    {[j \in DOMAIN tool.required |-> <<tool.required[j], f[j]>>] :
        f \in {g \in [DOMAIN tool.required ->
                         UNION {ValuesOfType(tool.properties[j][2]) :
                                    j \in DOMAIN tool.properties}] :
                  \A j \in DOMAIN tool.required :
                     g[j] \in ValuesOfType(PropertyType(tool, tool.required[j]))}}

ToolCallResponse(tool, arguments, finish) ==
    [status |-> "ok", finish_reason |-> finish, tool_calls_is_none |-> FALSE,
     tool_calls |-> <<[name |-> tool.name, arguments |-> arguments]>>,
     content |-> None]

\* What the service may answer to a request carrying one strict tool:
\*   - a call of the tool whose arguments conform to its schema;
\*   - the same cut short by the token limit (finish_reason "length");
\*   - free text instead of a call (tool_calls None, or an empty list);
\*   - an error.
ChatAnswers(request) ==
    LET tool == request.tools[1]
    IN {ToolCallResponse(tool, JsonDumps(m), "tool_calls") :
            m \in Conforming(tool)}
       \cup UNION {{ToolCallResponse(tool, SubSeq(JsonDumps(m), 1, n), "length") :
                       n \in 1..(Len(JsonDumps(m)) - 1)} : m \in Conforming(tool)}
       \cup {[NoChatResponse EXCEPT !.status = "ok", !.finish_reason = "stop",
                                    !.tool_calls_is_none = none,
                                    !.content = "free text"] :
                none \in BOOLEAN}
       \cup {[NoChatResponse EXCEPT !.status = err] : err \in ChatRemoteErrors}

\* response.choices[0].message.tool_calls[0]: the exception the subscript
\* raises, or None
ToolCallSubscriptError(response) ==
    IF response.tool_calls_is_none THEN "TypeError"
    ELSE IF Len(response.tool_calls) = 0 THEN "IndexError"
    ELSE None

\* ================================================ extraction notebook
NoExample ==
    [outcome |-> "none", error |-> None, answer |-> NoChatResponse,
     payload |-> << >>, shown |-> << >>]

\* the kernel before any cell has run.  sent, ex and results_from are the
\* history of the run: the requests put on the wire, how each example ended,
\* and the example whose parse cell last bound results.
FreshKernel ==
    [pc |-> "start", example |-> 0, error |-> None, hit |-> None,
     AZURE_OPENAI_ENDPOINT |-> None, AZURE_OPENAI_API_KEY |-> None,
     client |-> NoClient, tools |-> << >>, messages |-> << >>,
     response |-> NoChatResponse, results_bound |-> FALSE, results |-> << >>,
     results_from |-> 0, sent |-> << >>, ex |-> [e \in Examples |-> NoExample]]

\* variant: the cell catches the exception and the run goes on to the next
\* example as if the cell had completed
NbRaiseSwallowed(k, err) ==
    [k EXCEPT !.pc = IF k.example = 3 THEN "end" ELSE "tools",
              !.example = IF k.example = 3 THEN 3 ELSE k.example + 1,
              !.ex = IF k.example \in Examples
                     THEN [@ EXCEPT ![k.example].outcome = "success"]
                     ELSE @]

\* a cell raises: the exception is shown under the cell and the run stops;
\* the globals keep what was assigned before the exception
NbRaise(k, err) ==
    [k EXCEPT !.pc = "error", !.error = err,
              !.ex = IF k.example \in Examples
                     THEN [@ EXCEPT ![k.example].outcome = "failure",
                                    ![k.example].error = err]
                     ELSE @]

\* history: the exception that arose inside a cell
NbHit(k, err) == [k EXCEPT !.hit = err]

At(pc, e) == notebook = "extraction" /\ nb.pc = pc /\ nb.example = e

\* cell 4: load_dotenv("azure.env"); the two os.getenv assignments
ConfigCell ==
    /\ At("start", 0)
    /\ nb' = [nb EXCEPT !.pc = "client",
                 !.AZURE_OPENAI_ENDPOINT = getenv("AZURE_OPENAI_API_ENDPOINT"),
                 !.AZURE_OPENAI_API_KEY = getenv("AZURE_OPENAI_API_KEY")]
    /\ UNCHANGED <<notebook, env, form, inv, fs>>

\* cell 6: client = AzureOpenAI(...)
ClientCell ==
    /\ At("client", 0)
    /\ LET err == AzureOpenAIError(nb.AZURE_OPENAI_ENDPOINT,
                                   nb.AZURE_OPENAI_API_KEY, API_VERSION)
       IN nb' = IF err # None THEN NbRaise(NbHit(nb, err), err)
                ELSE [nb EXCEPT !.pc = "tools", !.example = 1,
                         !.client = AzureOpenAI(nb.AZURE_OPENAI_ENDPOINT,
                                                nb.AZURE_OPENAI_API_KEY,
                                                API_VERSION)]
    /\ UNCHANGED <<notebook, env, form, inv, fs>>

\* class ...(BaseModel); tools = [openai.pydantic_function_tool(...)]
ToolsCell(e) ==
    /\ At("tools", e)
    /\ nb' = [nb EXCEPT !.pc = "messages",
                        !.tools = <<PydanticFunctionTool(ExampleClass(e))>>]
    /\ UNCHANGED <<notebook, env, form, inv, fs>>

\* variant: the cell appends without first rebinding messages to []
MessagesCellNoReset(e) ==
    /\ At("messages", e)
    /\ nb' = [nb EXCEPT !.pc = "request",
                        !.messages = Append(Append(@, SystemMessage),
                                            UserMessage(e))]
    /\ UNCHANGED <<notebook, env, form, inv, fs>>

\* messages = []; messages.append(system); messages.append(user)
MessagesCell(e) ==
    /\ At("messages", e)
    /\ nb' = [nb EXCEPT !.pc = "request",
                        !.messages = Append(Append(<< >>, SystemMessage),
                                            UserMessage(e))]
    /\ UNCHANGED <<notebook, env, form, inv, fs>>

\* the request client.chat.completions.create(...) puts on the wire
ChatRequest(k) == [model |-> MODEL, messages |-> k.messages, tools |-> k.tools]

\* response = client.chat.completions.create(model=MODEL, messages=messages,
\*                                           tools=tools): the request leaves
SendChat(e) ==
    /\ At("request", e)
    /\ nb' = [nb EXCEPT !.pc = "await", !.sent = Append(@, ChatRequest(nb))]
    /\ UNCHANGED <<notebook, env, form, inv, fs>>

\* ... and create() returns the completion, which is bound to response, or
\* raises, which leaves response as it was
ReceiveChat(e) ==
    /\ At("await", e)
    /\ \E a \in ChatAnswers(nb.sent[Len(nb.sent)]) :
          nb' = IF a.status # "ok"
                THEN NbRaise(NbHit([nb EXCEPT !.ex[e].answer = a], a.status),
                             a.status)
                ELSE [nb EXCEPT !.pc = "show", !.response = a,
                                !.ex[e].answer = a]
    /\ UNCHANGED <<notebook, env, form, inv, fs>>

\* the cells that display response and print
\* response.choices[0].message.tool_calls[0].function(.arguments); for
\* Example 3 also the final model_dump_json cell, which ends the notebook
ShowCell(e) ==
    /\ At("show", e)
    /\ LET err == ToolCallSubscriptError(nb.response)
       IN nb' = IF err # None THEN NbRaise(NbHit(nb, err), err)
                ELSE IF HasParseCell(e)
                THEN [nb EXCEPT !.pc = "parse",
                         !.ex[e].shown = nb.response.tool_calls[1].arguments]
                ELSE [nb EXCEPT !.pc = "end",
                         !.ex[e].shown = nb.response.tool_calls[1].arguments,
                         !.ex[e].outcome = "success"]
    /\ UNCHANGED <<notebook, env, form, inv, fs>>

\* the first printed key that the dict lacks (results[key] raises KeyError),
\* or 0
FirstMissing(d, keys) ==
    IF \A j \in DOMAIN keys : keys[j] \in Keys(d) THEN 0
    ELSE CHOOSE j \in DOMAIN keys :
            /\ keys[j] \notin Keys(d)
            /\ \A h \in 1..(j - 1) : keys[h] \in Keys(d)

\* results = json.loads(response.choices[0].message.tool_calls[0]
\*                      .function.arguments); print(results[...]) three
\* times; then the model_dump_json cell
ParseCell(e) ==
    /\ At("parse", e)
    /\ HasParseCell(e)
    /\ LET err == ToolCallSubscriptError(nb.response)
           arguments == nb.response.tool_calls[1].arguments
           loaded == JsonLoads(arguments)
           bound == [nb EXCEPT !.results_bound = TRUE, !.results = loaded,
                               !.results_from = e]
       IN nb' = IF err # None THEN NbRaise(NbHit(nb, err), err)
                ELSE IF ~JsonParses(arguments)
                THEN NbRaise(NbHit(nb, "JSONDecodeError"), "JSONDecodeError")
                ELSE IF FirstMissing(loaded, PrintedKeys(e)) # 0
                THEN NbRaise(NbHit(bound, "KeyError"), "KeyError")
                ELSE [bound EXCEPT !.pc = "tools", !.example = e + 1,
                                   !.ex[e].outcome = "success",
                                   !.ex[e].payload = loaded]
    /\ UNCHANGED <<notebook, env, form, inv, fs>>

Extraction ==
    \/ ConfigCell
    \/ ClientCell
    \/ \E e \in Examples : ToolsCell(e)
    \/ \E e \in Examples : MessagesCell(e)
    \/ \E e \in Examples : SendChat(e)
    \/ \E e \in Examples : ReceiveChat(e)
    \/ \E e \in Examples : ShowCell(e)
    \/ \E e \in Examples : ParseCell(e)

\* ================================================================= Init
Init ==
    /\ notebook \in {"tts", "extraction"}
    /\ env \in [{"endpoint", "key"} -> {None, "set"}]
    /\ form = [launched |-> FALSE, instructions_box |-> None,
               input_box |-> None, voice_picker |-> None]
    /\ inv = [i \in Invocations |-> IdleInvocation]
    /\ fs = [n \in TempNames |-> NoFile]
    /\ nb = FreshKernel

\* ===================================================== tts notebook
\* cells 1-9: imports, load_dotenv, constants, def gpt4ominitts, the Blocks
\* form with its initial values, webapp.launch(share=True)
TtsStartup ==
    /\ notebook = "tts"
    /\ ~form.launched
    /\ form' = [launched |-> TRUE, instructions_box |-> instructions,
                input_box |-> text, voice_picker |-> DropdownDefault]
    /\ UNCHANGED <<notebook, env, inv, fs, nb>>

\* the user picks an entry of the "Voice Template" dropdown
PickVoice ==
    /\ form.launched
    /\ \E v \in (PickedVoices \cap DropdownChoices) \ {form.voice_picker} :
          form' = [form EXCEPT !.voice_picker = v]
    /\ UNCHANGED <<notebook, env, inv, fs, nb>>

\* def gpt4ominitts(instructions, text, voice): bind the positional arguments
Enter(i, via, args) ==
    inv' = [inv EXCEPT ![i] =
               [IdleInvocation EXCEPT !.pc = "client", !.via = via,
                    !.instructions = args[1], !.text = args[2],
                    !.voice = args[3]]]

\* invocations are numbered in the order they start
NextInvocation(i) ==
    /\ inv[i].pc = "idle"
    /\ \A j \in 1..(i - 1) : inv[j].pc # "idle"

\* variant: the inputs list names the two text boxes in the other order
ClickTextFirst(i) ==
    /\ form.launched
    /\ NextInvocation(i)
    /\ Enter(i, "form",
             <<form.input_box, form.instructions_box, form.voice_picker>>)
    /\ UNCHANGED <<notebook, env, form, fs, nb>>

\* play_button.click(fn=gpt4ominitts,
\*                   inputs=[instructions_box, input_box, voice_picker])
Click(i) ==
    /\ form.launched
    /\ NextInvocation(i)
    /\ Enter(i, "form",
             <<form.instructions_box, form.input_box, form.voice_picker>>)
    /\ UNCHANGED <<notebook, env, form, fs, nb>>

\* gpt4ominitts called from code, with any arguments
DirectCall(i) ==
    /\ form.launched
    /\ NextInvocation(i)
    /\ \E v \in CalledVoices : Enter(i, "direct", <<instructions, text, v>>)
    /\ UNCHANGED <<notebook, env, form, fs, nb>>

\* client = AzureOpenAI(azure_endpoint=os.getenv('endpoint'),
\*                      api_key=os.getenv('key'), api_version=api_version)
BuildClient(i) ==
    /\ inv[i].pc = "client"
    /\ LET e == getenv("endpoint")
           k == getenv("key")
           err == AzureOpenAIError(e, k, api_version)
       IN inv' = [inv EXCEPT ![i] =
                    IF err # None THEN Raise(Hit(@, err), err)
                    ELSE [@ EXCEPT !.pc = "request",
                                   !.client = AzureOpenAI(e, k, api_version)]]
    /\ UNCHANGED <<notebook, env, form, fs, nb>>

\* variant: a voice outside VOICES is replaced by a default before sending
SpeechRequestDefaultVoice(r) ==
    [model |-> model_name,
     voice |-> IF r.voice \in VoiceSet THEN r.voice ELSE VOICES[1],
     input |-> r.text, instructions |-> r.instructions,
     response_format |-> "wav"]

\* the request client.audio.speech.create(...) puts on the wire
SpeechRequest(r) ==
    [model |-> model_name, voice |-> r.voice, input |-> r.text,
     instructions |-> r.instructions, response_format |-> "wav"]

\* variant: the temporary file is opened before the request is made
SendRequestWithFileOpen(i) ==
    /\ inv[i].pc = "request"
    /\ \E n \in FreshTempNames(fs) :
          /\ fs' = [fs EXCEPT ![n] = [exists |-> TRUE, content |-> << >>]]
          /\ inv' = [inv EXCEPT ![i] =
                       [@ EXCEPT !.pc = "await", !.sent = @ + 1,
                                 !.request = SpeechRequest(inv[i]),
                                 !.temp_audio = n]]
    /\ UNCHANGED <<notebook, env, form, nb>>

\* response = client.audio.speech.create(...): the request leaves
SendRequest(i) ==
    /\ inv[i].pc = "request"
    /\ inv' = [inv EXCEPT ![i] =
                 [@ EXCEPT !.pc = "await", !.sent = @ + 1,
                           !.request = SpeechRequest(inv[i])]]
    /\ UNCHANGED <<notebook, env, form, fs, nb>>

\* variant: the body is streamed into a temporary file while it arrives, so
\* a request that fails leaves the file behind
ReceiveResponseKeepsPartial(i) ==
    /\ inv[i].pc = "await"
    /\ \E a \in TtsAnswers(inv[i].request) :
          IF a.status # "ok"
          THEN /\ inv' = [inv EXCEPT ![i] = Raise(Hit(@, a.status), a.status)]
               /\ \E n \in FreshTempNames(fs) :
                     fs' = [fs EXCEPT ![n] = [exists |-> TRUE,
                                              content |-> << >>]]
          ELSE /\ inv' = [inv EXCEPT ![i] = [@ EXCEPT !.pc = "create",
                                                      !.response = a]]
               /\ fs' = fs
    /\ UNCHANGED <<notebook, env, form, nb>>

\* ... and create() returns the response, or raises
ReceiveResponse(i) ==
    /\ inv[i].pc = "await"
    /\ \E a \in TtsAnswers(inv[i].request) :
          inv' = [inv EXCEPT ![i] =
                    IF a.status # "ok" THEN Raise(Hit(@, a.status), a.status)
                    ELSE [@ EXCEPT !.pc = "create", !.response = a]]
    /\ UNCHANGED <<notebook, env, form, fs, nb>>

\* with tempfile.NamedTemporaryFile(delete=False, suffix=".wav") as temp_audio
CreateTempFile(i) ==
    /\ inv[i].pc = "create"
    /\ \E n \in FreshTempNames(fs) :
          /\ fs' = [fs EXCEPT ![n] = [exists |-> TRUE, content |-> << >>]]
          /\ inv' = [inv EXCEPT ![i] = [@ EXCEPT !.pc = "write",
                                                 !.temp_audio = n]]
    /\ UNCHANGED <<notebook, env, form, nb>>

\* temp_audio.write(response.content); tempfilename = temp_audio.name
\* The file object is buffered: the bytes reach the file now or at close.
WriteContent(i) ==
    /\ inv[i].pc = "write"
    /\ LET n == inv[i].temp_audio
           c == inv[i].response.content
       IN \/ /\ fs' = [fs EXCEPT ![n].content = @ \o c]
             /\ inv' = [inv EXCEPT ![i] = [@ EXCEPT !.pc = "close",
                                                    !.tempfilename = n]]
          \/ /\ c # << >>
             /\ fs' = fs
             /\ inv' = [inv EXCEPT ![i] = [@ EXCEPT !.pc = "close",
                                                    !.buffer = @ \o c,
                                                    !.tempfilename = n]]
    /\ UNCHANGED <<notebook, env, form, nb>>

\* variant: NamedTemporaryFile with its default delete=True, which removes
\* the file when it is closed
CloseAndDelete(i) ==
    /\ inv[i].pc = "close"
    /\ fs' = [fs EXCEPT ![inv[i].temp_audio] = NoFile]
    /\ inv' = [inv EXCEPT ![i] = [@ EXCEPT !.pc = "sleep", !.buffer = << >>,
                                           !.temp_audio = 0]]
    /\ UNCHANGED <<notebook, env, form, nb>>

\* variant: the file is closed without its buffer being flushed
CloseWithoutFlush(i) ==
    /\ inv[i].pc = "close"
    /\ inv' = [inv EXCEPT ![i] = [@ EXCEPT !.pc = "sleep", !.buffer = << >>,
                                           !.temp_audio = 0]]
    /\ UNCHANGED <<notebook, env, form, fs, nb>>

\* leaving the with block flushes and closes the file (delete=False keeps it)
CloseTempFile(i) ==
    /\ inv[i].pc = "close"
    /\ fs' = [fs EXCEPT ![inv[i].temp_audio].content = @ \o inv[i].buffer]
    /\ inv' = [inv EXCEPT ![i] = [@ EXCEPT !.pc = "sleep", !.buffer = << >>,
                                           !.temp_audio = 0]]
    /\ UNCHANGED <<notebook, env, form, nb>>

\* time.sleep(0.5); return tempfilename
Return(i) ==
    /\ inv[i].pc = "sleep"
    /\ inv' = [inv EXCEPT ![i] = [@ EXCEPT !.pc = "done",
                                           !.ret = inv[i].tempfilename]]
    /\ UNCHANGED <<notebook, env, form, fs, nb>>

gpt4ominitts(i) ==
    \/ BuildClient(i)
    \/ SendRequest(i)
    \/ ReceiveResponse(i)
    \/ CreateTempFile(i)
    \/ WriteContent(i)
    \/ CloseTempFile(i)
    \/ Return(i)

Next ==
    \/ TtsStartup
    \/ PickVoice
    \/ \E i \in Invocations : Click(i)
    \/ \E i \in Invocations : DirectCall(i)
    \/ \E i \in Invocations : gpt4ominitts(i)
    \/ Extraction

Spec == Init /\ [][Next]_vars

\* -------------------------------------------- a changing environment
\* After startup something in the process replaces the value of a variable
\* that was set (os.environ[...] = ..., or load_dotenv(override=True) on an
\* edited azure.env).  Values that were set are only ever replaced by the
\* marker "changed", so the value a variable had at startup can still be
\* read off env.
ChangeEnv ==
    /\ \/ notebook = "tts" /\ form.launched
       \/ notebook = "extraction" /\ nb.pc # "start"
    /\ \E name \in DOMAIN env :
          /\ env[name] = "set"
          /\ env' = [env EXCEPT ![name] = "changed"]
    /\ UNCHANGED <<notebook, form, inv, fs, nb>>

NextEnv == Next \/ ChangeEnv

SpecEnv == Init /\ [][NextEnv]_vars

\* ============================================================ properties
ConstructorErrors == {"OpenAIError", "ValueError"}
Started(i) == inv[i].pc # "idle"
Finished(i) == inv[i].pc = "done"
Returned(i) == Finished(i) /\ inv[i].ret # 0
\* the request of invocation i has left
RequestLeft(i) ==
    \/ inv[i].pc \in {"await", "create", "write", "close", "sleep"}
    \/ Finished(i) /\ inv[i].hit \notin ConstructorErrors
FieldNames(cls) == {cls.fields[j][1] : j \in DOMAIN cls.fields}
NoToolCall(a) == a.status = "ok" /\ ToolCallSubscriptError(a) # None
\* a text is the JSON of a mapping iff writing out what can be read from it
\* gives the text back
IsJsonObject(t) == JsonDumps(JsonLoads(t)) = t
Unparsable(a) ==
    /\ a.status = "ok"
    /\ ToolCallSubscriptError(a) = None
    /\ ~IsJsonObject(a.tool_calls[1].arguments)

C2_NoToolCallIsFailure ==
    \A e \in Examples :
        /\ NoToolCall(nb.ex[e].answer)
           => /\ nb.ex[e].outcome # "success"
              /\ nb.ex[e].payload = << >>
              /\ nb.results_from # e
              /\ nb.example = e /\ nb.pc \in {"show", "error"}
              /\ nb.pc = "error" => /\ nb.ex[e].outcome = "failure"
                                    /\ nb.error \in {"TypeError", "IndexError"}
        /\ nb.ex[e].error \in {"TypeError", "IndexError"}
           => NoToolCall(nb.ex[e].answer)

\* Example 2 stopped on a free-text answer after Example 1 had succeeded
C2_Witness ==
    /\ nb.ex[1].outcome = "success"
    /\ NoToolCall(nb.ex[2].answer)
    /\ nb.ex[2].outcome = "failure"

C4_EmptyPayloadFails ==
    \A i \in Invocations :
        (inv[i].response.status = "ok" /\ inv[i].response.content = << >>)
        => ~Returned(i)

\* the files of the temporary directory
Files == {n \in TempNames : fs[n].exists}
\* the file invocation i holds open, or has written and will return
Owns(i, n) == n # 0 /\ (inv[i].temp_audio = n \/ inv[i].tempfilename = n)
\* the value response had when the request cell of example e started
ResponseBefore(e) == IF e = 1 THEN NoChatResponse ELSE nb.ex[e - 1].answer
\* the value results has when example e was not the one to bind it last
ResultsOf(e) == IF e = 0 THEN << >> ELSE nb.ex[e].payload

C6_TimeoutLeavesNothing ==
    /\ \A i \in Invocations :
          inv[i].hit = "APITimeoutError"
          => /\ Finished(i)
             /\ inv[i].exc = "APITimeoutError"
             /\ inv[i].ret = 0
             /\ inv[i].temp_audio = 0 /\ inv[i].tempfilename = 0
    /\ \A n \in Files :
          \E i \in Invocations : Owns(i, n) /\ inv[i].response.status = "ok"
    /\ \A e \in Examples :
          nb.ex[e].answer.status = "APITimeoutError"
          => /\ nb.pc = "error" /\ nb.example = e
             /\ nb.error = "APITimeoutError"
             /\ nb.ex[e].outcome = "failure"
             /\ nb.ex[e].payload = << >> /\ nb.ex[e].shown = << >>
             /\ nb.response = ResponseBefore(e)
             /\ nb.results_from # e
             /\ nb.results = ResultsOf(nb.results_from)

\* a synthesis request timed out while another invocation's file exists;
\* or Example 2's request timed out after Example 1 had bound results
C6_Witness ==
    \/ \E i, j \in Invocations :
          /\ inv[i].hit = "APITimeoutError" /\ Returned(j)
    \/ /\ nb.ex[2].answer.status = "APITimeoutError"
       /\ nb.results_from = 1

\* C7: concurrent invocations of gpt4ominitts do not interfere: no two of
\* them hold or return the same file, and the file behind a returned path
\* holds exactly the bytes of that invocation's own response.
C7_InvocationsIndependent ==
    /\ \A i, j \in Invocations :
          i # j => \A n \in TempNames : ~(Owns(i, n) /\ Owns(j, n))
    /\ \A i \in Invocations :
          Returned(i) => /\ fs[inv[i].ret].exists
                         /\ fs[inv[i].ret].content = inv[i].response.content

\* one invocation has returned its path while another, answered with
\* different bytes, is still inside its with block
C7_Witness ==
    \E i, j \in Invocations :
        /\ Returned(i)
        /\ inv[j].pc \in {"write", "close"}
        /\ inv[i].response.content # inv[j].response.content

\* C8: a missing configuration value is a startup failure: it never shows
\* up as the failure of an individual request (an invocation of
\* gpt4ominitts, or an example's request).
C8_NeverPerRequest ==
    /\ \A i \in Invocations : inv[i].exc \notin ConstructorErrors
    /\ \A e \in Examples : nb.ex[e].error \notin ConstructorErrors

\* C9: an exception that arises during a call reaches the caller: the
\* invocation (or the cell) ends with that very exception and with no
\* result; no example in which an exception arose counts as a success.
C9_NoErrorSwallowed ==
    /\ \A i \in Invocations :
          inv[i].hit # None
          => /\ Finished(i) /\ inv[i].exc = inv[i].hit /\ inv[i].ret = 0
    /\ nb.hit # None
       => /\ nb.pc = "error" /\ nb.error = nb.hit
          /\ nb.example \in Examples
             => /\ nb.ex[nb.example].outcome = "failure"
                /\ nb.ex[nb.example].error = nb.hit

\* the remote service rejected the credential of a synthesis request, or of
\* Example 1's request
C9_Witness ==
    \/ \E i \in Invocations : inv[i].hit = "AuthenticationError"
    \/ nb.hit = "AuthenticationError"

C11_ArtifactImmutable ==
    /\ [](\A n \in Files :
             \E i \in Invocations : Owns(i, n) /\ inv[i].response.status = "ok")
    /\ [](\A i \in Invocations :
             Returned(i) => /\ fs[inv[i].ret].exists
                            /\ fs[inv[i].ret].content = inv[i].response.content)
    /\ [][\A n \in TempNames :
             /\ fs[n].exists => fs'[n].exists
             /\ fs'[n].content # fs[n].content
                => /\ fs[n].content = << >>
                   /\ \E i \in Invocations :
                         /\ inv[i].temp_audio = n
                         /\ fs'[n].content = inv[i].response.content
             /\ (\E i \in Invocations : Returned(i) /\ inv[i].ret = n)
                => fs'[n] = fs[n]]_vars

\* a later invocation has returned a file of its own while the non-empty
\* file of an earlier one is still there
C11_Witness ==
    \E i, j \in Invocations :
        /\ i < j /\ Returned(i) /\ Returned(j)
        /\ inv[i].response.content # << >>
        /\ fs[inv[i].ret].content = inv[i].response.content

\* the value a dict holds under a key
Get(d, k) == d[CHOOSE j \in DOMAIN d : d[j][1] = k][2]

\* C12: when a parsing example succeeds, every declared field is present in
\* the parsed mapping with a value of the Python type the class annotates
\* it with, and that value is the one the service put in the response.
C12_ParsedTypesAsDeclared ==
    \A e \in Examples :
        (HasParseCell(e) /\ nb.ex[e].outcome = "success")
        => \A j \in DOMAIN ExampleClass(e).fields :
              LET name == ExampleClass(e).fields[j][1]
                  annotation == ExampleClass(e).fields[j][2]
              IN /\ name \in Keys(nb.ex[e].payload)
                 /\ Get(nb.ex[e].payload, name).type = annotation
                 /\ JsonToken(Get(nb.ex[e].payload, name))
                       = nb.ex[e].answer.tool_calls[1].arguments[2 * j + 1]

\* Example 2 succeeded and bound results to a mapping of strings
C12_Witness ==
    /\ nb.ex[2].outcome = "success"
    /\ nb.results_from = 2
    /\ \A j \in DOMAIN nb.results : nb.results[j][2].type = "str"
    /\ Len(nb.results) = 3

\* the examples whose request cell has put its request on the wire
Requested(e) ==
    \/ nb.ex[e].answer.status # "none"
    \/ nb.example = e /\ nb.pc = "await"

\* C13: every invocation issues exactly one request, whether it succeeds
\* or fails: a finished gpt4ominitts invocation has sent one request (never
\* more), and the chat requests sent are one per example run, in order.
C13_OneRequestPerInvocation ==
    /\ \A i \in Invocations :
          /\ inv[i].sent <= 1
          /\ Finished(i) => inv[i].sent = 1
    /\ Len(nb.sent) = Cardinality({e \in Examples : Requested(e)})
    /\ \A e \in Examples : nb.ex[e].outcome # "none" => Requested(e)

\* C14: the k-th request sent is the one of Example k and carries exactly
\* the two messages appended in that example's messages cell, the system
\* message first and then that example's user message; nothing of an
\* earlier example's conversation is in it.
C14_ConversationPerRequest ==
    /\ \A k \in DOMAIN nb.sent :
          /\ nb.sent[k].messages = <<SystemMessage, UserMessage(k)>>
          /\ \A h \in 1..(k - 1) :
                \A j \in DOMAIN nb.sent[k].messages :
                   nb.sent[k].messages[j] # UserMessage(h)
    /\ \A e \in Examples :
          (nb.example = e /\ nb.pc \in {"request", "await", "show", "parse"})
          => nb.messages = <<SystemMessage, UserMessage(e)>>

\* the request of Example 3 has been sent, after those of Examples 1 and 2
C14_Witness == Len(nb.sent) = 3 /\ nb.sent[3].messages[2] = UserMessage(3)

\* the value a variable of the environment had at startup
StartupValue(name) == IF env[name] = "changed" THEN "set" ELSE env[name]

\* C15: every client used for a request is configured with the endpoint
\* and the key the environment held at startup, whatever the environment
\* holds later.
C15_ConfigurationReadOnce ==
    /\ \A i \in Invocations :
          inv[i].client # NoClient
          => /\ inv[i].client.azure_endpoint = StartupValue("endpoint")
             /\ inv[i].client.api_key = StartupValue("key")
    /\ nb.client # NoClient
       => /\ nb.client.azure_endpoint = StartupValue("endpoint")
          /\ nb.client.api_key = StartupValue("key")

\* C16: no state is carried from one extraction call to the next: once an
\* example has completed, results does not hold a mapping parsed from the
\* response of an earlier example.
C16_NoStaleResult ==
    \A e \in Examples :
        nb.ex[e].outcome = "success"
        => ~(nb.results_bound /\ nb.results_from \in 1..(e - 1))

\* C17: gpt4ominitts has a path to return only once the file is closed and
\* holds the whole payload, and it opens the file only after create() has
\* returned a response: an invocation still waiting for its answer, or one
\* whose request failed, has no file and returns no path.
C17_PathAfterClose ==
    \A i \in Invocations :
        /\ inv[i].ret # 0 => Finished(i) /\ inv[i].ret = inv[i].tempfilename
        /\ (inv[i].pc = "sleep" \/ Returned(i))
           => /\ inv[i].temp_audio = 0
              /\ inv[i].buffer = << >>
              /\ fs[inv[i].tempfilename].exists
              /\ fs[inv[i].tempfilename].content = inv[i].response.content
        /\ (inv[i].temp_audio # 0 \/ inv[i].tempfilename # 0)
           => /\ inv[i].response.status = "ok"
              /\ inv[i].pc \in {"write", "close", "sleep", "done"}
        /\ inv[i].pc \in {"client", "request", "await"}
           => \A n \in Files : ~Owns(i, n)
        /\ (Finished(i) /\ inv[i].exc # None)
           => /\ inv[i].ret = 0
              /\ inv[i].sent = 1 => Cardinality(Files)
                    <= Cardinality({j \in Invocations \ {i} : inv[j].sent = 1})

\* one invocation has closed its non-empty file and is about to return its
\* path, while another's request failed and the directory holds one file
C17_Witness ==
    \E i, j \in Invocations :
        /\ inv[i].pc = "sleep"
        /\ fs[inv[i].tempfilename].content # << >>
        /\ Finished(j) /\ inv[j].exc \in TtsRemoteErrors
        /\ Cardinality(Files) = 1

\* C18: the voice selector only ever holds an entry of VOICES (its choices
\* are VOICES and its default is one of them); a click hands gpt4ominitts
\* the current values of the instructions box, the text box and the
\* selector, in that order and unmodified; so every request that comes from
\* the form carries a voice of VOICES, with that text and those
\* instructions.
C18_FormVoiceInVOICES ==
    /\ [](/\ DropdownDefault \in DropdownChoices
          /\ DropdownChoices \subseteq VoiceSet
          /\ form.launched => form.voice_picker \in DropdownChoices)
    /\ [](\A i \in Invocations :
             inv[i].via = "form"
             => /\ inv[i].voice \in VoiceSet
                /\ RequestLeft(i)
                   => /\ inv[i].request.voice = inv[i].voice
                      /\ inv[i].request.input = inv[i].text
                      /\ inv[i].request.instructions = inv[i].instructions)
    /\ [][\A i \in Invocations :
             (inv[i].pc = "idle" /\ inv'[i].via = "form")
             => /\ inv'[i].instructions = form.instructions_box
                /\ inv'[i].text = form.input_box
                /\ inv'[i].voice = form.voice_picker]_vars

\* the user picked another voice than the default, clicked, and the request
\* carrying that voice has left
C18_Witness ==
    \E i \in Invocations :
        /\ inv[i].via = "form"
        /\ inv[i].voice # DropdownDefault
        /\ RequestLeft(i)
        /\ inv[i].request.voice = inv[i].voice

====
